---- MODULE Spec2Model ----
(***************************************************************************)
(* A model of the regexp package of wrapp/go-pcre: the scan loops          *)
(* FindAllIndex / FindAllSubmatchIndex, the template expander expand /     *)
(* extract and the replace assembler replaceAll with its three policies.   *)
(* Offsets are 0-based as in the Go code; Slice(s, i, j) is Go's s[i:j].   *)
(* The native matcher behind pcre.Exec is an oracle drawn in Init.         *)
(***************************************************************************)
EXTENDS Integers, Sequences, FiniteSets, TLC

\* ------------------------------------------------------------- bounds
MaxLen == 3
MaxN == 2
MaxTpl == 4

\* ---------------------------------------------------- program constants
ErrNoMatch == -1
ErrNull == -2

None == -1

Text == <<"a", "b", "c", "d", "e", "f">>

Slice(s, i, j) == SubSeq(s, i + 1, j)

Min(x, y) == IF x <= y THEN x ELSE y

RECURSIVE Zeros(_)
Zeros(k) == IF k <= 0 THEN <<>> ELSE <<0>> \o Zeros(k - 1)

\* ------------------------------------------------------------ matcher
(* What the compiled pattern does at one subject position p: pref is the   *)
(* end of the match the matcher finds first there (None: no match at p),   *)
(* alt the end of the first non-empty match it finds there on backtracking *)
(* (None: there is none).  A non-empty pref is its own alt.                *)
PosChoices(p, L) ==
    {[pref |-> None, alt |-> None]}
        \cup {[pref |-> e, alt |-> e] : e \in (p + 1)..L}
        \cup {[pref |-> p, alt |-> a] : a \in {None} \cup (p + 1)..L}

RECURSIVE PatternsFrom(_, _)
PatternsFrom(p, L) ==
    IF p > L THEN {<<>>}
    ELSE {<<c>> \o rest : c \in PosChoices(p, L), rest \in PatternsFrom(p + 1, L)}

\* The option bits the package passes to Exec, as a set of option names.
NotEmptyAtStart == "NotEmptyAtStart"

MatchAtIgnoringFlag(pat, p, startoffset, opts) == pat[p + 1].pref

\* pcre_exec at position p: an empty match at the start offset is refused
\* under NotEmptyAtStart, and the matcher then tries its alternatives.
MatchAt(pat, p, startoffset, opts) ==
    LET c == pat[p + 1]
    IN  IF c.pref = p /\ p = startoffset /\ NotEmptyAtStart \in opts
        THEN c.alt
        ELSE c.pref

\* pcre_exec is unanchored: the first position at or after startoffset with
\* a match, <<None, None>> when there is none.
RECURSIVE FirstMatch(_, _, _, _, _)
FirstMatch(pat, L, p, startoffset, opts) ==
    IF p < 0 \/ p > L THEN <<None, None>>
    ELSE IF MatchAt(pat, p, startoffset, opts) # None
         THEN <<p, MatchAt(pat, p, startoffset, opts)>>
         ELSE FirstMatch(pat, L, p + 1, startoffset, opts)

\* (*PCRE).CaptureCount
CaptureCount(re) == re.cc

\* The spans of the capture groups of a match <<s, e>>: group 1, when the
\* pattern has one, takes the first byte of a non-empty match and does not
\* participate in an empty one.
GroupSpans(re, s, e) ==
    IF re.cc = 0 THEN <<>>
    ELSE IF e > s THEN <<s, s + 1>> ELSE <<-1, -1>>

\* (*PCRE).Exec: fail is an error code the native call reports (0: none).
\* The offset pairs are written to the first two thirds of oVector, as many
\* as fit; the return value is the number of pairs set, 0 when oVector is
\* too small for all of them.
Exec(re, subject, startoffset, opts, oVector, fail) ==
    LET m == FirstMatch(re.pat, Len(subject), startoffset, startoffset, opts)
        all == <<m[1], m[2]>> \o GroupSpans(re, m[1], m[2])
        room == 2 * (Len(oVector) \div 3)
        k == Min(room, Len(all))
    IN  IF fail # 0 THEN [e |-> fail, oVector |-> oVector]
        ELSE IF m[1] = None THEN [e |-> ErrNoMatch, oVector |-> oVector]
        ELSE [e |-> IF Len(all) > room THEN 0
                    ELSE IF Len(all) = 4 /\ all[3] = -1 THEN 1
                    ELSE Len(all) \div 2,
              oVector |-> SubSeq(all, 1, k) \o SubSeq(oVector, k + 1, Len(oVector))]

\* ---------------------------------------------------------- scan loop
FindAllIndex == "FindAllIndex"
FindAllSubmatchIndex == "FindAllSubmatchIndex"

\* oVector := make([]int, ...)
MakeOVector(re, fn) ==
    IF fn = FindAllIndex THEN Zeros(3) ELSE Zeros((1 + CaptureCount(re)) * 3)

\* What one match adds to locs.
Record(re, fn, oVector) ==
    IF fn = FindAllIndex THEN <<oVector[1], oVector[2]>>
    ELSE SubSeq(oVector, 1, (1 + CaptureCount(re)) * 2)

InitialOptionsNotEmptyAtStart == {NotEmptyAtStart}

\* var options pcre.Option: no option bit is set
InitialOptions == {}

\* for start := 0; ...; var locs; var options
ScanInit(budget) ==
    [n |-> budget, start |-> 0, options |-> InitialOptions, locs |-> <<>>,
     calls |-> <<>>, status |-> "running"]

LoopCondPositiveBudget(s, subject) == s.start <= Len(subject) /\ s.n > 0

\* The loop condition: start <= len(b) && n != 0
LoopCond(s, subject) == s.start <= Len(subject) /\ s.n # 0

NextStartAtMatchStart(oVector) == oVector[1]

\* start = oVector[1]
NextStart(oVector) == oVector[2]

NextOptionsUnchanged(opts) == opts

\* options |= pcre.NotEmptyAtStart
NextOptions(opts) == opts \cup {NotEmptyAtStart}

\* The post statement n--
NextBudget(n) == n - 1

IsNoMatchAnyNegative(e) == e < 0

\* e == pcre.ErrNoMatch
IsNoMatch(e) == e = ErrNoMatch

\* One pass of the for statement: the condition, the body with the result
\* of its Exec call, and the post statement.  calls is the history of the
\* Exec calls made: the start offset and options passed, the value returned.
LoopPass(re, fn, subject, s, fail) ==
    LET r == Exec(re, subject, s.start, s.options, MakeOVector(re, fn), fail)
        called == [s EXCEPT !.calls = Append(@, [start |-> s.start,
                                                 options |-> s.options, e |-> r.e])]
    IN  IF ~LoopCond(s, subject) THEN [s EXCEPT !.status = "returned"]
        ELSE IF IsNoMatch(r.e) THEN [called EXCEPT !.status = "returned"]
        ELSE IF r.e < 0 THEN [called EXCEPT !.status = "panic"]
        ELSE [called EXCEPT !.locs = Append(@, Record(re, fn, r.oVector)),
                            !.options = NextOptions(@),
                            !.start = NextStart(r.oVector),
                            !.n = NextBudget(@)]

\* The whole call when the matcher's failAt-th call fails (0: none does).
RECURSIVE RunScan(_, _, _, _, _)
RunScan(re, fn, subject, s, failAt) ==
    IF s.status # "running" THEN s
    ELSE RunScan(re, fn, subject,
                 LoopPass(re, fn, subject, s,
                          IF failAt = Len(s.calls) + 1 THEN ErrNull ELSE 0),
                 failAt)

\* ------------------------------------------------------------ expand
(* A template is a sequence of runes (one element per decoded rune), and a *)
(* name of the name table a sequence of runes too.                         *)
NumLimit == 100000000

AsciiDigits == <<"0", "1", "2", "3", "4", "5", "6", "7", "8", "9">>

\* name[j] - '0' for a byte between '0' and '9', None for any other
DigitValue(c) ==
    IF \E d \in 1..10 : AsciiDigits[d] = c
    THEN (CHOOSE d \in 1..10 : AsciiDigits[d] = c) - 1
    ELSE None

\* unicode.IsLetter, on the runes the templates are drawn from; "U+00E9" is
\* the one rune LATIN SMALL LETTER E WITH ACUTE, a letter outside ASCII.
IsLetter(c) == c \in {"x", "y", "A", "Z", "U+00E9"}

\* unicode.IsDigit: the ASCII digits and the other decimal digits of Unicode
\* ("U+0663" is the one rune ARABIC-INDIC DIGIT THREE).
IsDigit(c) == DigitValue(c) # None \/ c \in {"U+0663"}

IsNameRuneNoUnderscore(c) == IsLetter(c) \/ IsDigit(c)

\* The test of the name loop of extract, negated: the rune belongs to a name.
IsNameRune(c) == IsLetter(c) \/ IsDigit(c) \/ c = "_"

\* strings.Index(template, "$"), 0-based, -1 when there is none
RECURSIVE IndexFrom(_, _, _)
IndexFrom(t, c, i) ==
    IF i >= Len(t) THEN -1
    ELSE IF t[i + 1] = c THEN i
    ELSE IndexFrom(t, c, i + 1)

Index(t, c) == IndexFrom(t, c, 0)

\* The name loop of extract: the length of the leading run of name runes.
RECURSIVE NameLen(_, _)
NameLen(str, i) ==
    IF i < Len(str) /\ IsNameRune(str[i + 1]) THEN NameLen(str, i + 1) ELSE i

\* The number loop of extract, from digit j on with num accumulated so far.
RECURSIVE ParseFrom(_, _, _)
ParseFrom(name, j, num) ==
    IF j >= Len(name) THEN num
    ELSE IF DigitValue(name[j + 1]) = None \/ num >= NumLimit THEN -1
    ELSE ParseFrom(name, j + 1, num * 10 + DigitValue(name[j + 1]))

ParseNumLeadingZeros(name) == ParseFrom(name, 0, 0)

\* "Parse number" and "Disallow leading zeros" of extract
ParseNum(name) ==
    IF name[1] = "0" /\ Len(name) > 1 THEN -1 ELSE ParseFrom(name, 0, 0)

NotOk == [name |-> <<>>, num |-> 0, rest |-> <<>>, ok |-> FALSE]

\* Whether the name of a braced reference is closed: str[i] == '}'
BraceClosed(str, i) == i < Len(str) /\ str[i + 1] = "}"

\* extract: the name of a leading "$name" or "${name}" of str
extract(str0) ==
    IF Len(str0) < 2 \/ str0[1] # "$" THEN NotOk
    ELSE LET brace == str0[2] = "{"
             str == IF brace THEN Slice(str0, 2, Len(str0)) ELSE Slice(str0, 1, Len(str0))
             i == NameLen(str, 0)
         IN  IF i = 0 THEN NotOk
             ELSE IF brace /\ ~BraceClosed(str, i) THEN NotOk
             ELSE [name |-> Slice(str, 0, i),
                   num |-> ParseNum(Slice(str, 0, i)),
                   rest |-> Slice(str, IF brace THEN i + 1 ELSE i, Len(str)),
                   ok |-> TRUE]

\* (*Regexp).SubExpNames
SubExpNames(re) == re.names

ParticipatesInRange(match, i) == 2 * i + 1 < Len(match)

\* The test of both branches of expand: group i is in match and took part.
Participates(match, i) == 2 * i + 1 < Len(match) /\ match[2 * i + 1] >= 0

\* What a slice expression with bounds out of range does to the call.
PanicVal == <<"panic: slice bounds out of range">>

\* Go's s[i:j], bounds checked
GoSlice(s, i, j) == IF 0 <= i /\ i <= j /\ j <= Len(s) THEN Slice(s, i, j) ELSE PanicVal

\* src[match[2*i]:match[2*i+1]]
GroupText(src, match, i) == GoSlice(src, match[2 * i + 1], match[2 * i + 2])

\* if num >= 0 { ... }: the positional branch of expand
ByNumber(src, match, num) ==
    IF Participates(match, num) THEN GroupText(src, match, num) ELSE <<>>

\* for i, namei := range re.SubExpNames() { ... break }: the name branch
RECURSIVE ByName(_, _, _, _, _)
ByName(names, src, match, name, i) ==
    IF i >= Len(names) THEN <<>>
    ELSE IF name = names[i + 1] /\ Participates(match, i) THEN GroupText(src, match, i)
    ELSE ByName(names, src, match, name, i + 1)

IsDollarDollarNever(template) == FALSE

\* len(template) > 1 && template[1] == '$'
IsDollarDollar(template) == Len(template) > 1 /\ template[2] = "$"

AfterMalformedSkipsNext(template) == Slice(template, 2, Len(template))

\* Where expand goes on after a malformed "$": template = template[1:]
AfterMalformed(template) == Slice(template, 1, Len(template))

\* (*Regexp).expand
RECURSIVE expand(_, _, _, _, _)
expand(r, dst, template, src, match) ==
    LET i == Index(template, "$")
        dst1 == dst \o Slice(template, 0, i)
        t1 == Slice(template, i, Len(template))
        x == extract(t1)
        g == IF x.num >= 0 THEN ByNumber(src, match, x.num)
             ELSE ByName(SubExpNames(r), src, match, x.name, 0)
    IN  IF Len(template) = 0 \/ i < 0 THEN dst \o template
        ELSE IF IsDollarDollar(t1)
             THEN expand(r, Append(dst1, "$"), Slice(t1, 2, Len(t1)), src, match)
        ELSE IF ~x.ok
             THEN expand(r, Append(dst1, "$"), AfterMalformed(t1), src, match)
        ELSE IF g = PanicVal THEN PanicVal
        ELSE expand(r, dst1 \o g, x.rest, src, match)

\* The first call of extract that expand(template) makes and what it
\* returned, when it makes one.
FirstExtract(template) ==
    LET i == Index(template, "$")
        t1 == Slice(template, i, Len(template))
    IN  IF i < 0 \/ IsDollarDollar(t1) THEN [called |-> FALSE, r |-> NotOk]
        ELSE [called |-> TRUE, r |-> extract(t1)]

\* ----------------------------------------------------------- replace
ReplaceAll == "ReplaceAll"
ReplaceAllLiteral == "ReplaceAllLiteral"
ReplaceAllFunc == "ReplaceAllFunc"

\* The functions a caller hands to ReplaceAllFunc, by name.
Callback(f, x) ==
    CASE f = "twice" -> x \o x
      [] f = "bracket" -> <<"[">> \o x \o <<"]">>
      [] OTHER -> <<>>

\* The closure each policy passes to replaceAll.
Replacement(caller, r, repl, original, dst, match) ==
    CASE caller = ReplaceAll -> expand(r, dst, repl, original, match)
      [] caller = ReplaceAllLiteral -> dst \o repl
      [] OTHER -> IF GoSlice(original, match[1], match[2]) = PanicVal THEN PanicVal
                  ELSE dst \o Callback(repl, GoSlice(original, match[1], match[2]))

NextSrciAtMatchStart(loc) == loc[1]

\* srci = locs[i][1]
NextSrci(loc) == loc[2]

\* The tail of replaceAll: if srci < len(original) { dst = append(...) }
AppendTail(original, srci, dst) ==
    IF srci < Len(original) THEN dst \o Slice(original, srci, Len(original)) ELSE dst

\* The loop of replaceAll from record i on, and its tail.
RECURSIVE ReplaceLoop(_, _, _, _, _, _, _, _)
ReplaceLoop(caller, r, repl, original, locs, i, srci, dst) ==
    LET gap == GoSlice(original, srci, locs[i + 1][1])
        d == Replacement(caller, r, repl, original, dst \o gap, locs[i + 1])
    IN  IF i >= Len(locs) THEN AppendTail(original, srci, dst)
        ELSE IF gap = PanicVal \/ d = PanicVal THEN PanicVal
        ELSE ReplaceLoop(caller, r, repl, original, locs, i + 1, NextSrci(locs[i + 1]), d)

\* (*Regexp).replaceAll once FindAllSubmatchIndex(original, -1) gave locs
replaceAll(caller, r, repl, original, locs) ==
    ReplaceLoop(caller, r, repl, original, locs, 0, 0, <<>>)

\* ------------------------------------------------------------- state
(* re: the compiled Regexp; b: the subject (src of expand); caller: the    *)
(* exported function called; fn, n0: the scan function and its n; scan:    *)
(* the scan loop's variables; repl: the replacement argument; match: the   *)
(* match expand is given; out: what the caller gets back; ext: what the    *)
(* first extract call of expand returned.                                  *)
VARIABLES re, b, caller, fn, n0, scan, repl, match, out, ext

vars == <<re, b, caller, fn, n0, scan, repl, match, out, ext>>

\* What a call of the function computing r gives its caller.
Outcome(r) ==
    IF r = PanicVal THEN [status |-> "panic", dst |-> <<>>]
    ELSE [status |-> "returned", dst |-> r]

Subjects == {SubSeq(Text, 1, k) : k \in 0..MaxLen}

\* The name table of a pattern with cc groups: group 1 is (?P<x>...).
NamesOf(cc) == IF cc = 0 THEN << <<>> >> ELSE << <<>>, <<"x">> >>

Regexps(L) ==
    {[pat |-> p, cc |-> c, names |-> NamesOf(c)] : p \in PatternsFrom(0, L), c \in 0..1}

\* The values of n: negative ones (unbounded), 0 and the positive budgets.
Budgets == (-2)..MaxN

ErrorCodes == {ErrNull}

Replacers == {ReplaceAll, ReplaceAllLiteral, ReplaceAllFunc}

Repls(c) ==
    CASE c = ReplaceAll -> {<<"[", "$", "0", "]">>, <<"$", "$", "$", "{", "x", "}", "-">>}
      [] c = ReplaceAllLiteral -> {<<"z">>}
      [] OTHER -> {"twice", "bracket"}

Pending == [status |-> "pending", dst |-> <<>>]

Init ==
    /\ b \in Subjects
    /\ re \in Regexps(Len(b))
    /\ \/ /\ caller = "FindAll"
          /\ fn \in {FindAllIndex, FindAllSubmatchIndex}
          /\ n0 \in Budgets
          /\ repl = <<>>
       \/ /\ caller \in Replacers
          /\ fn = FindAllSubmatchIndex
          /\ n0 = -1
          /\ repl \in Repls(caller)
    /\ scan = ScanInit(n0)
    /\ match = <<>>
    /\ out = Pending
    /\ ext = [called |-> FALSE, r |-> NotOk]

\* A pass of the loop whose Exec call, if it makes one, does not fail.
Pass ==
    /\ scan.status = "running"
    /\ scan' = LoopPass(re, fn, b, scan, 0)
    /\ UNCHANGED <<re, b, caller, fn, n0, repl, match, out, ext>>

\* A pass of the loop whose Exec call reports a failure.
PassFail ==
    /\ scan.status = "running"
    /\ LoopCond(scan, b)
    /\ \E err \in ErrorCodes : scan' = LoopPass(re, fn, b, scan, err)
    /\ UNCHANGED <<re, b, caller, fn, n0, repl, match, out, ext>>

\* The scan returns locs to its caller.
Return ==
    /\ caller = "FindAll"
    /\ scan.status = "returned"
    /\ out = Pending
    /\ out' = [status |-> "returned", dst |-> scan.locs]
    /\ UNCHANGED <<re, b, caller, fn, n0, scan, repl, match, ext>>

\* replaceAll after its call of FindAllSubmatchIndex returned.
Assemble ==
    /\ caller \in Replacers
    /\ scan.status = "returned"
    /\ out = Pending
    /\ out' = Outcome(replaceAll(caller, re, repl, b, scan.locs))
    /\ UNCHANGED <<re, b, caller, fn, n0, scan, repl, match, ext>>

\* log.Panicf in the scan unwinds through every caller.
Unwind ==
    /\ scan.status = "panic"
    /\ out = Pending
    /\ out' = [status |-> "panic", dst |-> <<>>]
    /\ UNCHANGED <<re, b, caller, fn, n0, scan, repl, match, ext>>

Next == Pass \/ PassFail \/ Return \/ Assemble \/ Unwind

Spec == Init /\ [][Next]_vars

\* --------------------------------------------- the scan, from its call
\* The longest subject of the scans followed from their call to their end.
MaxLenFair == 2

\* Before FindAllIndex or FindAllSubmatchIndex is called: no loop variable
\* exists yet, and the arguments are not chosen.
InitIdle ==
    /\ b = <<>>
    /\ re = [pat |-> <<[pref |-> None, alt |-> None]>>, cc |-> 0, names |-> NamesOf(0)]
    /\ caller = "FindAll"
    /\ fn = FindAllIndex
    /\ n0 = 0
    /\ repl = <<>>
    /\ scan = [ScanInit(0) EXCEPT !.status = "idle"]
    /\ match = <<>>
    /\ out = Pending
    /\ ext = [called |-> FALSE, r |-> NotOk]

\* re.FindAllIndex(b, n) or re.FindAllSubmatchIndex(b, n) is called on a
\* compiled pattern: the loop's variables are initialised.
Call ==
    /\ scan.status = "idle"
    /\ b' \in {SubSeq(Text, 1, k) : k \in 0..MaxLenFair}
    /\ re' \in Regexps(Len(b'))
    /\ fn' \in {FindAllIndex, FindAllSubmatchIndex}
    /\ n0' \in Budgets
    /\ scan' = ScanInit(n0')
    /\ UNCHANGED <<caller, repl, match, out, ext>>

\* The steps of a call that is executing.
Running == Pass \/ PassFail \/ Return \/ Unwind

NextScan == Call \/ Running

\* A call that is executing keeps executing: the loop takes its next pass
\* and a function that has its result returns it.
FairSpec == InitIdle /\ [][NextScan]_vars /\ WF_vars(Running)


\* ------------------------------------------------- expand on its own
TplRunes == {"$", "{", "}", "0", "1", "x", "_", "U+00E9"}

Templates == UNION {[1..k -> TplRunes] : k \in 0..MaxTpl}

ExpandSrc == SubSeq(Text, 1, 3)

\* The name tables of patterns with two groups.  NameTable cuts every entry
\* at the length of the longest name, so the names of one table are equally
\* long.
NameTables ==
    {<< <<>>, <<"x">>, <<"x">> >>, << <<>>, <<"1", "x">>, <<"0", "1">> >>}

\* Names of nine and of ten decimal digits.
NineDigits == <<"1", "0", "0", "0", "0", "0", "0", "0", "0">>

TenDigits == NineDigits \o <<"0">>

\* The name table of (?<1000000000>.)(?<1000000000>..) under DupNames.
LongNameTable == << <<>>, TenDigits, TenDigits >>

\* Templates that refer to a group by a long number.
LongTemplates ==
    {<<"$">> \o NineDigits, <<"$">> \o TenDigits,
     <<"$", "{">> \o TenDigits \o <<"}", "x">>}

\* The records of a pattern with two groups on ExpandSrc.
Matches ==
    {<<0, 3>> \o g1 \o g2 : g1 \in {<<-1, -1>>, <<0, 1>>}, g2 \in {<<-1, -1>>, <<1, 3>>}}

\* What the buffer holds when expand is called.
Dst0 == <<"#">>

InitExpand ==
    /\ b = ExpandSrc
    /\ \/ /\ re \in {[pat |-> <<>>, cc |-> 2, names |-> t] : t \in NameTables}
          /\ repl \in Templates
       \/ /\ re = [pat |-> <<>>, cc |-> 2, names |-> LongNameTable]
          /\ repl \in LongTemplates
    /\ caller = "expand"
    /\ fn = FindAllSubmatchIndex
    /\ n0 = -1
    /\ scan = [ScanInit(n0) EXCEPT !.status = "returned"]
    /\ match \in Matches
    /\ out = Pending
    /\ ext = [called |-> FALSE, r |-> NotOk]

Expand ==
    /\ caller = "expand"
    /\ out = Pending
    /\ out' = Outcome(expand(re, Dst0, repl, b, match))
    /\ ext' = FirstExtract(repl)
    /\ UNCHANGED <<re, b, caller, fn, n0, scan, repl, match>>

SpecExpand == InitExpand /\ [][Expand]_vars

\* ------------------------------------------------------------- claims
\* The records of the unbounded scan of the same subject by the same
\* function, when no call of the matcher fails.
UnboundedLocs == RunScan(re, fn, b, ScanInit(-1), 0).locs

Last(q) == q[Len(q)]

\* C1: the records of a scan lie within the subject, start before they end,
\* come in ascending order and never overlap: each starts at or after the
\* end of the one before it.
C1_RecordsOrdered ==
    /\ \A i \in 1..Len(scan.locs) :
          /\ 0 <= scan.locs[i][1]
          /\ scan.locs[i][1] <= scan.locs[i][2]
          /\ scan.locs[i][2] <= Len(b)
    /\ \A i \in 1..(Len(scan.locs) - 1) : scan.locs[i + 1][1] >= scan.locs[i][2]
    /\ out.status = "returned" /\ caller = "FindAll" => out.dst = scan.locs

\* A scan returned three records or more, with a gap between the first two.
C1_Witness ==
    /\ caller = "FindAll"
    /\ out.status = "returned"
    /\ Len(out.dst) >= 3
    /\ out.dst[2][1] > out.dst[1][2]

\* The pattern whose one match at every position of b is the empty string.
AllEmpty == \A p \in 0..Len(b) : re.pat[p + 1] = [pref |-> p, alt |-> None]

C3_Budget ==
    /\ n0 = 0 => scan.calls = <<>> /\ scan.locs = <<>>
    /\ n0 > 0 => Len(scan.locs) <= n0
    /\ n0 > 0 /\ scan.status = "returned" =>
          scan.locs = SubSeq(UnboundedLocs, 1, Min(n0, Len(UnboundedLocs)))
    /\ n0 < 0 => scan.n < 0
    /\ n0 < 0 /\ scan.status = "returned" =>
          /\ scan.calls # <<>>
          /\ Last(scan.calls).e = ErrNoMatch
          /\ scan.locs = UnboundedLocs

\* A scan with n > 0 returned n records where the unbounded scan has more.
C3_Witness ==
    /\ n0 > 0
    /\ out.status = "returned"
    /\ caller = "FindAll"
    /\ Len(out.dst) = n0
    /\ Len(UnboundedLocs) > n0

\* A call of the matcher reported a failure other than no-match.
MatcherFailed ==
    \E i \in 1..Len(scan.calls) : scan.calls[i].e < 0 /\ scan.calls[i].e # ErrNoMatch

\* The record the i-th matcher call of the scan produced.
RecordOfCall(i) ==
    Record(re, fn, Exec(re, b, scan.calls[i].start, scan.calls[i].options,
                        MakeOVector(re, fn), 0).oVector)

\* C4: a matcher failure other than no-match ends the scan, and the replace
\* operation around it, in a panic that reaches the caller, and nothing is
\* returned; a no-match ends the scan with the records of the calls before.
C4_FailurePropagates ==
    /\ MatcherFailed =>
          /\ scan.status = "panic"
          /\ Last(scan.calls).e < 0 /\ Last(scan.calls).e # ErrNoMatch
          /\ out.status \in {"pending", "panic"}
    /\ out.status = "panic" => MatcherFailed
    /\ out.status = "returned" => ~MatcherFailed /\ scan.status = "returned"
    /\ scan.status = "returned" /\ scan.calls # <<>> /\ Last(scan.calls).e = ErrNoMatch =>
          /\ Len(scan.locs) = Len(scan.calls) - 1
          /\ \A i \in 1..Len(scan.locs) :
                scan.calls[i].e >= 0 /\ scan.locs[i] = RecordOfCall(i)

\* A replace operation panicked because the matcher failed after a match.
C4_Witness ==
    /\ caller \in Replacers
    /\ out.status = "panic"
    /\ Len(scan.locs) >= 1
    /\ MatcherFailed

\* What each policy makes of one record: the template expanded on its own,
\* the literal, the callback's value for the matched bytes.
PerMatch(rec) ==
    CASE caller = ReplaceAll -> expand(re, <<>>, repl, b, rec)
      [] caller = ReplaceAllLiteral -> repl
      [] OTHER -> Callback(repl, Slice(b, rec[1], rec[2]))

\* S[prevEnd : r_i.start] + perMatch(r_i) + ... + S[r_k.end :]
RECURSIVE Spliced(_, _, _, _)
Spliced(S, recs, i, prevEnd) ==
    IF i > Len(recs) THEN SubSeq(S, prevEnd + 1, Len(S))
    ELSE SubSeq(S, prevEnd + 1, recs[i][1]) \o PerMatch(recs[i])
             \o Spliced(S, recs, i + 1, recs[i][2])

\* C5: a replace operation returns the gaps of the subject between the
\* records of its unbounded scan, in order, with each record's replacement
\* in place of the match; without a match it returns the subject.
C5_ReplaceSplices ==
    caller \in Replacers /\ out.status = "returned" =>
        /\ out.dst = Spliced(b, UnboundedLocs, 1, 0)
        /\ UnboundedLocs = <<>> => out.dst = b

\* A template replacement of two matches, the first not empty, with bytes
\* before the first and between the two.
C5_Witness ==
    /\ caller = ReplaceAll
    /\ out.status = "returned"
    /\ Len(scan.locs) = 2
    /\ scan.locs[1][1] > 0
    /\ scan.locs[2][1] > scan.locs[1][2]
    /\ scan.locs[1][2] > scan.locs[1][1]

\* --------------------------------------------------- claims on expand
\* [A-Za-z0-9_], and the same with the letters and digits outside ASCII.
AsciiNameRunes ==
    {AsciiDigits[d] : d \in 1..10} \cup {"x", "y", "A", "Z", "_"}

UnicodeNameRunes == AsciiNameRunes \cup {"U+00E9", "U+0663"}

\* The place of the first "$" of t, from 1; 0 when t has none.
FirstDollar(t) ==
    IF \E i \in 1..Len(t) : t[i] = "$"
    THEN CHOOSE i \in 1..Len(t) : t[i] = "$" /\ \A j \in 1..(i - 1) : t[j] # "$"
    ELSE 0

Before(t) == SubSeq(t, 1, FirstDollar(t) - 1)

After(t) == SubSeq(t, FirstDollar(t) + 1, Len(t))

\* The length of the longest prefix of q made of runes of class.
Run(q, class) ==
    CHOOSE k \in 0..Len(q) :
        /\ \A j \in 1..k : q[j] \in class
        /\ k = Len(q) \/ q[k + 1] \notin class

StartsDollarDollar(t) == FirstDollar(t) > 0 /\ After(t) # <<>> /\ After(t)[1] = "$"

\* The first "$" of t starts $name.
PlainRef(t, class) == FirstDollar(t) > 0 /\ After(t) # <<>> /\ After(t)[1] \in class

\* The first "$" of t starts ${name}.
BraceRef(t, class) ==
    /\ FirstDollar(t) > 0
    /\ After(t) # <<>>
    /\ After(t)[1] = "{"
    /\ Run(Tail(After(t)), class) > 0
    /\ Run(Tail(After(t)), class) < Len(Tail(After(t)))
    /\ Tail(After(t))[Run(Tail(After(t)), class) + 1] = "}"

WellFormed(t, class) == PlainRef(t, class) \/ BraceRef(t, class)

Malformed(t, class) ==
    FirstDollar(t) > 0 /\ ~StartsDollarDollar(t) /\ ~WellFormed(t, class)

RefName(t, class) ==
    IF PlainRef(t, class) THEN SubSeq(After(t), 1, Run(After(t), class))
    ELSE SubSeq(Tail(After(t)), 1, Run(Tail(After(t)), class))

RefRest(t, class) ==
    IF PlainRef(t, class) THEN SubSeq(After(t), Run(After(t), class) + 1, Len(After(t)))
    ELSE SubSeq(Tail(After(t)), Run(Tail(After(t)), class) + 2, Len(Tail(After(t))))

\* The longest name of digits the number loop of extract reads as a number.
MaxDigits == 9

\* All decimal digits, without a leading zero unless the name is "0"; when
\* capped, of MaxDigits digits at most.
IsPositional(name, capped) ==
    /\ \A i \in 1..Len(name) : \E d \in 1..10 : AsciiDigits[d] = name[i]
    /\ name[1] # "0" \/ Len(name) = 1
    /\ capped => Len(name) <= MaxDigits

RECURSIVE Decimal(_)
Decimal(name) ==
    IF name = <<>> THEN 0
    ELSE 10 * Decimal(SubSeq(name, 1, Len(name) - 1))
             + (CHOOSE d \in 0..9 : AsciiDigits[d + 1] = Last(name))

\* The groups of the record match: 0 (the whole match) to GroupCount.
GroupCount == Len(match) \div 2 - 1

Span(i) == <<match[2 * i + 1], match[2 * i + 2]>>

SpanText(i) == SubSeq(b, Span(i)[1] + 1, Span(i)[2])

\* The index a reference name addresses, None when it addresses none.
ResolvedIndex(name, capped) ==
    IF IsPositional(name, capped)
    THEN IF Decimal(name) <= GroupCount /\ Span(Decimal(name)) # <<-1, -1>>
         THEN Decimal(name) ELSE None
    ELSE IF \E i \in 0..GroupCount : re.names[i + 1] = name /\ Span(i) # <<-1, -1>>
         THEN CHOOSE i \in 0..GroupCount :
                  /\ re.names[i + 1] = name /\ Span(i) # <<-1, -1>>
                  /\ \A j \in 0..(i - 1) : ~(re.names[j + 1] = name /\ Span(j) # <<-1, -1>>)
         ELSE None

\* What the reference adds to the output: the bytes of the span of the
\* group it addresses, nothing when it addresses none.
ResolvedText(name, capped) ==
    IF ResolvedIndex(name, capped) = None THEN <<>>
    ELSE SpanText(ResolvedIndex(name, capped))

\* The first reference of the template adds the text of the group its name
\* addresses, and the rest of the template is rendered after it.
ReferenceResolves(capped) ==
    out # Pending /\ WellFormed(repl, UnicodeNameRunes) =>
        out = Outcome(expand(re,
                             Dst0 \o Before(repl)
                                  \o ResolvedText(RefName(repl, UnicodeNameRunes), capped),
                             RefRest(repl, UnicodeNameRunes), b, match))

Unresolved(name) ==
    IF IsPositional(name, TRUE)
    THEN Decimal(name) > GroupCount \/ Span(Decimal(name)) = <<-1, -1>>
    ELSE \/ \A i \in 0..GroupCount : re.names[i + 1] # name
         \/ \A i \in 0..GroupCount : re.names[i + 1] = name => Span(i) = <<-1, -1>>

OnlyMalformed(t, class) ==
    \A i \in 1..Len(t) : t[i] = "$" => Malformed(SubSeq(t, i, Len(t)), class)

\* C8: expand returns on every template; a malformed "$" gives one "$" and
\* rendering goes on with the rune after it; a template without a "$", or
\* with malformed ones only, is rendered as it stands.
C8_MalformedIsLiteral ==
    out # Pending =>
        /\ out.status = "returned"
        /\ Malformed(repl, UnicodeNameRunes) =>
              out.dst = expand(re, Dst0 \o Before(repl) \o <<"$">>, After(repl), b, match)
        /\ OnlyMalformed(repl, UnicodeNameRunes) => out.dst = Dst0 \o repl

\* "${x$", a brace never closed and a "$" at the end, was rendered verbatim.
C8_Witness ==
    /\ out.status = "returned"
    /\ repl = <<"$", "{", "x", "$">>
    /\ Span(1) = <<0, 1>>
    /\ out.dst = Dst0 \o repl

\* C9: "$$" gives one "$" and takes both runes: what follows is rendered as
\* if it began the template; "$$1" is rendered "$1" whatever the match.
C9_DollarDollar ==
    out # Pending =>
        /\ StartsDollarDollar(repl) =>
              out = Outcome(expand(re, Dst0 \o Before(repl) \o <<"$">>,
                                   SubSeq(After(repl), 2, Len(After(repl))), b, match))
        /\ repl = <<"$", "$", "1">> => out.dst = Dst0 \o <<"$", "1">>

\* "$$1" was rendered "$1" for a match whose group 1 took part.
C9_Witness ==
    /\ out.status = "returned"
    /\ repl = <<"$", "$", "1">>
    /\ Span(1) = <<0, 1>>
    /\ out.dst = Dst0 \o <<"$", "1">>

\* What C10 says with class for the characters of a name: the name extract
\* recognises is the longest run of class after "$" or between "${" and
\* "}"; a "$" before a rune that is neither of class nor "{" nor "$" is
\* malformed and rendered as "$"; "$1x" is the one reference named 1x.
NamesAreRunsOf(class) ==
    out # Pending /\ FirstDollar(repl) > 0 /\ ~StartsDollarDollar(repl) =>
        /\ ext.called
        /\ ext.r.ok =>
              /\ \A i \in 1..Len(ext.r.name) : ext.r.name[i] \in class
              /\ WellFormed(repl, class)
              /\ ext.r.name = RefName(repl, class)
              /\ ext.r.rest = RefRest(repl, class)
        /\ After(repl) # <<>> /\ After(repl)[1] \notin class \cup {"{", "$"} =>
              /\ ~ext.r.ok
              /\ out = Outcome(expand(re, Dst0 \o Before(repl) \o <<"$">>,
                                      After(repl), b, match))
        /\ After(repl) = <<"1", "x">> =>
              ext.r.ok /\ ext.r.name = <<"1", "x">> /\ ext.r.num = -1

\* C10 as stated: a name is a run of [A-Za-z0-9_].
C10_AsciiNames == NamesAreRunsOf(AsciiNameRunes)

\* C10 amended: a name is the longest run of letters, digits (of Unicode,
\* not of ASCII alone) and "_".
C10_UnicodeNames == NamesAreRunsOf(UnicodeNameRunes)

\* "$" before a letter outside ASCII was read as a reference named by it.
C10_Witness ==
    /\ out.status = "returned"
    /\ repl = <<"$", "U+00E9">>
    /\ ext.called
    /\ ext.r.ok
    /\ ext.r.name = <<"U+00E9">>
    /\ out.dst = Dst0

\* ------------------------------------------------- claims on the flag
\* The Exec calls of the scan that came after a match: 2..Len(calls).
LaterCalls == 2..Len(scan.calls)

\* Whether the k-th call carried the flag.
Carries(k) == NotEmptyAtStart \in scan.calls[k].options

\* The k-th call found a match: every call before a no-match or a failure.
Matched(k) == k <= Len(scan.locs)

\* The match of the k-th call is the empty string at offset p.
EmptyAt(k, p) == scan.locs[k][1] = p /\ scan.locs[k][2] = p

EmptyAnywhere == \A p \in 0..Len(b) : re.pat[p + 1].pref = p

\* Each record after the first ends strictly after the record before it;
\* there are at most L+1 records and at most L+2 Exec calls.
ForwardProgress ==
    /\ \A k \in 2..Len(scan.locs) : scan.locs[k][2] > scan.locs[k - 1][2]
    /\ Len(scan.locs) <= Len(b) + 1
    /\ Len(scan.calls) <= Len(b) + 2

\* The scan loop has ended, by returning or by the panic of a failed call.
Terminated == scan.status # "running"

\* C12: for every subject, every n and every pattern, in every state of a
\* scan each record after the first ends strictly after the one before it,
\* the records are at most L+1 and the Exec calls at most L+2, and the scan
\* always terminates.
C12_ForwardProgress ==
    []ForwardProgress /\ (scan.status = "running" ~> Terminated)

\* An unbounded scan with a pattern that can match empty anywhere returned
\* L+1 records, one of them non-empty, after L+2 calls.
C12_Witness ==
    /\ Len(b) >= 2 /\ n0 < 0 /\ EmptyAnywhere
    /\ scan.status = "returned"
    /\ Len(scan.locs) = Len(b) + 1
    /\ Len(scan.calls) = Len(b) + 2
    /\ \E k \in 1..Len(scan.locs) : scan.locs[k][2] > scan.locs[k][1]

====
